---- MODULE Spec2Model ----
(***************************************************************************)
(* Model of multi_log (src/src/lib.rs): MultiLogger, a log::Log sink that  *)
(* forwards enabled / log / flush to an ordered list of child loggers, and *)
(* MultiLogger::init, which sets the log facade's max level and registers  *)
(* the MultiLogger as the process-wide logger.                             *)
(*                                                                         *)
(* The log facade (max level, logger slot, the log macros) is an external  *)
(* crate; it is modelled from its documented contract.  The children are   *)
(* the VecLogger of the crate's tests, plus (in PanicSpec only) a child    *)
(* whose log() panics.                                                     *)
(*                                                                         *)
(* Nothing in MultiLogger takes a lock, so threads interleave at every     *)
(* access of shared state: between the two facade writes of init, between  *)
(* a macro's level test and its logger() load, and between two child calls *)
(* of one MultiLogger::log.                                                *)
(***************************************************************************)
EXTENDS Integers, Sequences, FiniteSets, TLC

\* ------------------------------------------------------------------ bounds
MaxChildren == 2    \* longest child list (QuerySpec, PanicSpec, ConcSpec)
MaxInits == 2       \* calls of MultiLogger::init in one process
MaxSeqEmits == 2    \* log-macro invocations in one run (Spec, PanicSpec, ConcSpec)
TestChildren == 3   \* longest child list of the test scenario (TestSpec)
MaxEmits == 4       \* log-macro invocations of the test scenario (TestSpec)
NThreads == 2       \* emitting threads (ConcSpec)

\* ------------------------------------------------------- log::Level et al.
Level == {"Error", "Warn", "Info", "Debug", "Trace"}
LevelFilter == {"Off"} \cup Level

\* log::Level as usize (Error = 1 .. Trace = 5)
LevelAsUsize(l) ==
    CASE l = "Error" -> 1 [] l = "Warn" -> 2 [] l = "Info" -> 3
      [] l = "Debug" -> 4 [] l = "Trace" -> 5

\* log::LevelFilter as usize (Off = 0 .. Trace = 5)
LevelFilterAsUsize(f) ==
    CASE f = "Off" -> 0 [] f = "Error" -> 1 [] f = "Warn" -> 2
      [] f = "Info" -> 3 [] f = "Debug" -> 4 [] f = "Trace" -> 5

\* log::LevelFilter::from_usize
LevelFilterFromUsize(n) ==
    CHOOSE f \in LevelFilter : LevelFilterAsUsize(f) = n

\* log::Level::to_level_filter
to_level_filter(l) == LevelFilterFromUsize(LevelAsUsize(l))

\* impl PartialOrd for Level: a <= b
LevelLe(a, b) == LevelAsUsize(a) <= LevelAsUsize(b)

\* impl PartialOrd<LevelFilter> for Level: l <= f
LevelLeFilter(l, f) == LevelAsUsize(l) <= LevelFilterAsUsize(f)

\* the message each macro call of the test formats: debug!("debug"), ...
MessageOf(l) ==
    CASE l = "Error" -> "error" [] l = "Warn" -> "warn" [] l = "Info" -> "info"
      [] l = "Debug" -> "debug" [] l = "Trace" -> "trace"

\* a log::Record as the macros build it
Record(l) == [level |-> l, args |-> MessageOf(l)]

\* record.metadata()
Metadata(record) == [level |-> record.level]

\* ------------------------------------------------------------------ inputs
\* the children, levels and records each specification draws its inputs from
SeqChildren == [level : {"Info", "Warn"}, kind : {"vec"}]
\* the child lists of racing init calls (Spec): no child, or one at info
RaceLists == {<<>>, <<[level |-> "Info", kind |-> "vec"]>>}
SeqEmitLevels == {"Info", "Warn"}
InstallLevels == {"Warn", "Trace"}
\* the abnormal-termination case: a child whose log() panics on warn (and error)
PanicChildren == [level : {"Warn"}, kind : {"panic"}]
PanicSeqChildren == [level : {"Info"}, kind : {"vec"}] \cup PanicChildren
\* the test's children (debug, info, error) and macros (debug!, info!, warn!, error!)
TestVecLoggers == [level : {"Debug", "Info", "Error"}, kind : {"vec"}]
TestEmitLevels == {"Debug", "Info", "Warn", "Error"}
\* the threads of a process: the one that starts it and one it spawns
Callers == {"main", "other"}

MaxOf(a, b) == IF a >= b THEN a ELSE b

ChildIds == (1 .. MaxInits) \X (1 .. MaxOf(MaxChildren, TestChildren))

ListsOf(S, max) == UNION {[1 .. n -> S] : n \in 0 .. max}

\* the boxed children of the n-th list built, each with its own identity
Boxed(n, L) == [i \in 1 .. Len(L) |-> [id |-> <<n, i>>, level |-> L[i].level, kind |-> L[i].kind]]

VARIABLES
    max_level,   \* facade: MAX_LOG_LEVEL_FILTER
    state,       \* facade: STATE of the logger slot
    LOGGER,      \* facade: the registered logger
    messages,    \* child id -> the child's buffer (VecLogger.messages)
    nlog,        \* child id -> number of log() calls the child has received
    installs,    \* the init calls that have returned, in the order they registered
    pc,          \* per thread: where it is, and the macros it has run so far
    lastOp,      \* the latest enabled() or flush() query, its result and child calls
    nemit        \* number of MultiLogger::log calls entered

vars == <<max_level, state, LOGGER, messages, nlog, installs, pc, lastOp, nemit>>

\* ------------------------------------------------------- VecLogger (tests)
\* VecLogger::enabled
VecLogger_enabled(self, metadata) == LevelLe(metadata.level, self.level)

\* VecLogger::log: the new contents of the child's buffer (the push is made
\* under the child's mutex)
VecLogger_log(self, record, buf) ==
    IF VecLogger_enabled(self, Metadata(record))
    THEN Append(buf, record.args)
    ELSE buf

\* whether the child's log() terminates abnormally on this record
ChildPanics(c, record) == c.kind = "panic" /\ LevelLe(record.level, c.level)

\* child.enabled(metadata) through the Box<log::Log>
ChildEnabled(c, metadata) == VecLogger_enabled(c, metadata)

\* child.log(record) through the Box<log::Log>; st = [messages, nlog, calls, result]
ChildLog(c, record, st) ==
    [messages |-> IF c.kind = "vec"
                  THEN [st.messages EXCEPT ![c.id] = VecLogger_log(c, record, @)]
                  ELSE st.messages,
     nlog     |-> [st.nlog EXCEPT ![c.id] = @ + 1],
     calls    |-> Append(st.calls, <<c.id, "log">>),
     result   |-> IF ChildPanics(c, record) THEN "panic" ELSE "returned"]

\* ------------------------------------------------------------- MultiLogger
\* MultiLogger::new
MultiLogger_new(loggers) == [loggers |-> loggers]

\* Iterator::any over self.loggers: stops at the first child that reports enabled
RECURSIVE any_enabled(_, _, _, _)
any_enabled(loggers, metadata, i, calls) ==
    IF i > Len(loggers)
    THEN [result |-> FALSE, calls |-> calls]
    ELSE LET c == loggers[i]
             called == Append(calls, <<c.id, "enabled">>)
         IN  IF ChildEnabled(c, metadata)
             THEN [result |-> TRUE, calls |-> called]
             ELSE any_enabled(loggers, metadata, i + 1, called)

\* mutant: Iterator::all in place of Iterator::any
MultiLogger_enabled_all(self, metadata) ==
    [result |-> \A i \in 1 .. Len(self.loggers) : ChildEnabled(self.loggers[i], metadata),
     calls  |-> [i \in 1 .. Len(self.loggers) |-> <<self.loggers[i].id, "enabled">>]]

\* <MultiLogger as log::Log>::enabled
MultiLogger_enabled(self, metadata) == any_enabled(self.loggers, metadata, 1, <<>>)

\* mutant: the child at pos is called only if its own enabled() admits the record
for_each_step_prechecked(self, record, pos, st) ==
    [st  |-> IF ChildEnabled(self.loggers[pos], Metadata(record))
             THEN ChildLog(self.loggers[pos], record, st)
             ELSE st,
     pos |-> pos + 1]

\* mutant: the loop ends after the first child
for_each_step_first(self, record, pos, st) ==
    [st |-> ChildLog(self.loggers[pos], record, st), pos |-> Len(self.loggers) + 1]

\* mutant: a child's panic is caught and the loop goes on
for_each_step_catching(self, record, pos, st) ==
    [st  |-> [ChildLog(self.loggers[pos], record, st) EXCEPT !.result = "returned"],
     pos |-> pos + 1]

\* <MultiLogger as log::Log>::log, one turn of for_each's loop: the child at pos
\* is called with the record; a panic of the child unwinds out of the loop
for_each_step(self, record, pos, st) ==
    [st |-> ChildLog(self.loggers[pos], record, st), pos |-> pos + 1]

\* mutant: the children are flushed last to first
MultiLogger_flush_reversed(self) ==
    [i \in 1 .. Len(self.loggers) |-> <<self.loggers[Len(self.loggers) + 1 - i].id, "flush">>]

\* <MultiLogger as log::Log>::flush: the child calls it makes (VecLogger::flush
\* does nothing)
MultiLogger_flush(self) == [i \in 1 .. Len(self.loggers) |-> <<self.loggers[i].id, "flush">>]

\* ------------------------------------------------------------ the facade
\* log's logger before any is registered
NopLogger == [ptr |-> 0, loggers |-> <<>>]

\* the facade of a fresh process
Fresh == [max_level |-> "Off", state |-> "UNINITIALIZED", LOGGER |-> NopLogger]

\* the facade as the variables hold it
Facade == [max_level |-> max_level, state |-> state, LOGGER |-> LOGGER]

\* log::set_max_level: one atomic store
set_max_level(facade, filter) == [facade EXCEPT !.max_level = filter]

\* log::set_boxed_logger: the facade afterwards and the Result
set_boxed_logger(facade, boxed) ==
    IF facade.state = "UNINITIALIZED"
    THEN [facade |-> [facade EXCEPT !.state = "INITIALIZED", !.LOGGER = boxed], result |-> "Ok"]
    ELSE [facade |-> facade, result |-> "Err"]

\* log::logger()
logger == IF state = "INITIALIZED" THEN LOGGER ELSE NopLogger

\* the log macros' test before the record is built: lvl <= log::max_level()
MacroAdmits(l) == LevelLeFilter(l, max_level)

\* ------------------------------------------------------- MultiLogger::init
\* mutant: the max level is not set
init_set_level_skipped(facade, level) == facade

\* mutant: the max level is set only while no logger is registered
init_set_level_if_unset(facade, level) ==
    IF facade.state = "UNINITIALIZED"
    THEN set_max_level(facade, to_level_filter(level))
    ELSE facade

\* MultiLogger::init, first statement: log::set_max_level(level.to_level_filter())
init_set_level(facade, level) == set_max_level(facade, to_level_filter(level))

\* mutant: the Result of set_boxed_logger is dropped and Ok(()) returned
init_register_ignoring_error(facade, ptr, loggers) ==
    [set_boxed_logger(facade, [ptr |-> ptr] @@ MultiLogger_new(loggers)) EXCEPT !.result = "Ok"]

\* MultiLogger::init, second statement:
\* log::set_boxed_logger(Box::new(MultiLogger::new(loggers))); ptr identifies the Box
init_register(facade, ptr, loggers) ==
    set_boxed_logger(facade, [ptr |-> ptr] @@ MultiLogger_new(loggers))

\* ------------------------------------------------------------- operations
\* a thread outside every operation, with the macros it has run so far in hist
IdlePc == [at |-> "idle", hist |-> <<>>, ilevel |-> "-", boxed |-> NopLogger,
           self |-> NopLogger, pos |-> 0]

NoOp == [kind |-> "none", level |-> "-", ptr |-> 0, result |-> "-", calls |-> <<>>]

\* init calls begun so far: those that have returned and those between their
\* two statements
NInitCalls == Len(installs) + Cardinality({t \in DOMAIN pc : pc[t].at = "init"})

\* macros run so far by the threads in T
RECURSIVE NEmitted(_)
NEmitted(T) ==
    IF T = {} THEN 0
    ELSE LET t == CHOOSE x \in T : TRUE IN Len(pc[t].hist) + NEmitted(T \ {t})

\* thread t enters MultiLogger::init with a fresh list of children and runs its
\* first statement, log::set_max_level
InitSetLevel(t, lists) ==
    /\ pc[t].at = "idle"
    /\ NInitCalls < MaxInits
    /\ \E L \in lists, level \in InstallLevels :
         LET n == NInitCalls + 1
         IN  /\ max_level' = init_set_level(Facade, level).max_level
             /\ pc' = [pc EXCEPT ![t] = [@ EXCEPT !.at = "init", !.ilevel = level,
                                           !.boxed = [ptr |-> n, loggers |-> Boxed(n, L)]]]
    /\ UNCHANGED <<state, LOGGER, messages, nlog, installs, lastOp, nemit>>

\* thread t runs init's second statement, log::set_boxed_logger, and returns
InitRegister(t) ==
    /\ pc[t].at = "init"
    /\ LET r == init_register(Facade, pc[t].boxed.ptr, pc[t].boxed.loggers)
       IN  /\ max_level' = r.facade.max_level
           /\ state' = r.facade.state
           /\ LOGGER' = r.facade.LOGGER
           /\ installs' = Append(installs, [ptr |-> pc[t].boxed.ptr, level |-> pc[t].ilevel,
                                            result |-> r.result])
    /\ pc' = [pc EXCEPT ![t] = [IdlePc EXCEPT !.hist = pc[t].hist]]
    /\ UNCHANGED <<messages, nlog, lastOp, nemit>>

\* thread t runs a log macro (debug!, info!, warn!, error!) up to its level
\* test, lvl <= log::max_level(); the macro makes no enabled() call
MTest(t, levels, room) ==
    /\ pc[t].at = "idle"
    /\ room
    /\ \E l \in levels :
         LET e == [level |-> l, threshold |-> max_level, registered |-> state = "INITIALIZED",
                   ptr |-> 0, calls |-> <<>>,
                   status |-> IF MacroAdmits(l) THEN "admitted" ELSE "suppressed"]
         IN  pc' = [pc EXCEPT ![t] = [@ EXCEPT !.hist = Append(@, e),
                                        !.at = IF MacroAdmits(l) THEN "admitted" ELSE "idle"]]
    /\ UNCHANGED <<max_level, state, LOGGER, messages, nlog, installs, lastOp, nemit>>

\* thread t, its record admitted, loads log::logger() and enters its log()
MCall(t) ==
    /\ pc[t].at = "admitted"
    /\ LET self == logger
           k == Len(pc[t].hist)
           empty == Len(self.loggers) = 0
       IN  /\ pc' = [pc EXCEPT ![t] =
                       [@ EXCEPT !.hist[k].ptr = self.ptr,
                                 !.hist[k].status = IF empty THEN "returned" ELSE "running",
                                 !.at = IF empty THEN "idle" ELSE "logging",
                                 !.self = IF empty THEN NopLogger ELSE self,
                                 !.pos = IF empty THEN 0 ELSE 1]]
           /\ nemit' = IF self.ptr # 0 THEN nemit + 1 ELSE nemit
    /\ UNCHANGED <<max_level, state, LOGGER, messages, nlog, installs, lastOp>>

\* thread t, inside MultiLogger::log, calls the next child; after the last
\* child log() returns, and a child's panic unwinds the thread
CStep(t) ==
    /\ pc[t].at = "logging"
    /\ LET k == Len(pc[t].hist)
           e == pc[t].hist[k]
           r == for_each_step(pc[t].self, Record(e.level), pc[t].pos,
                  [messages |-> messages, nlog |-> nlog, calls |-> e.calls,
                   result |-> "returned"])
           panicked == r.st.result = "panic"
           done == r.pos > Len(pc[t].self.loggers)
       IN  /\ messages' = r.st.messages
           /\ nlog' = r.st.nlog
           /\ pc' = [pc EXCEPT ![t] =
                       [@ EXCEPT !.hist[k].calls = r.st.calls,
                                 !.hist[k].status = IF panicked THEN "panic"
                                                    ELSE IF done THEN "returned" ELSE "running",
                                 !.at = IF panicked THEN "panicked"
                                        ELSE IF done THEN "idle" ELSE "logging",
                                 !.self = IF panicked \/ done THEN NopLogger ELSE @,
                                 !.pos = IF panicked \/ done THEN 0 ELSE r.pos]]
    /\ UNCHANGED <<max_level, state, LOGGER, installs, lastOp, nemit>>

\* thread t asks log::logger().enabled(metadata); the children's enabled()
\* reads nothing that changes
Enabled(t) ==
    /\ pc[t].at = "idle"
    /\ \E l \in Level :
         LET r == MultiLogger_enabled(logger, Metadata(Record(l)))
         IN  lastOp' = [kind |-> "enabled", level |-> l, ptr |-> logger.ptr,
                        result |-> r.result, calls |-> r.calls]
    /\ UNCHANGED <<max_level, state, LOGGER, messages, nlog, installs, pc, nemit>>

\* thread t asks log::logger().flush(); VecLogger::flush does nothing
Flush(t) ==
    /\ pc[t].at = "idle"
    /\ lastOp' = [kind |-> "flush", level |-> "-", ptr |-> logger.ptr, result |-> "returned",
                  calls |-> MultiLogger_flush(logger)]
    /\ UNCHANGED <<max_level, state, LOGGER, messages, nlog, installs, pc, nemit>>

\* a process whose threads T have done nothing yet, its facade as given
Start(facade, T, done) ==
    /\ max_level = facade.max_level
    /\ state = facade.state
    /\ LOGGER = facade.LOGGER
    /\ messages = [c \in ChildIds |-> <<>>]
    /\ nlog = [c \in ChildIds |-> 0]
    /\ installs = done
    /\ pc = [t \in T |-> IdlePc]
    /\ lastOp = NoOp
    /\ nemit = 0

\* a fresh process: nothing installed, the facade's max level Off
Init == Start(Fresh, Callers, <<>>)

\* init calls and log macros of two threads, well-behaved children
Next ==
    \E t \in Callers :
       \/ InitSetLevel(t, RaceLists)
       \/ InitRegister(t)
       \/ MTest(t, SeqEmitLevels, NEmitted(Callers) < MaxSeqEmits)
       \/ MCall(t)
       \/ CStep(t)

Spec == Init /\ [][Next]_vars

\* init calls of the main thread, enabled() / flush() queries of two threads
QueryNext ==
    \/ InitSetLevel("main", ListsOf(SeqChildren, MaxChildren))
    \/ InitRegister("main")
    \/ \E t \in Callers : Enabled(t) \/ Flush(t)

QuerySpec == Init /\ [][QueryNext]_vars

\* a process after one MultiLogger::init(children, level) has returned
Installed(S, T) ==
    \E L \in ListsOf(S, MaxChildren), level \in InstallLevels :
      LET r == init_register(init_set_level(Fresh, level), 1, Boxed(1, L))
      IN  Start(r.facade, T, <<[ptr |-> 1, level |-> level, result |-> r.result]>>)

\* log macros of two threads, children that may panic in log()
PanicInit == Installed(PanicSeqChildren, Callers)

PanicNext ==
    \E t \in Callers :
       \/ MTest(t, SeqEmitLevels, NEmitted(Callers) < MaxSeqEmits)
       \/ MCall(t)
       \/ CStep(t)

PanicSpec == PanicInit /\ [][PanicNext]_vars

\* ------------------------------------------- tests::multiple_vec_loggers
\* the test's set-up with any list of VecLoggers: set_max_level(Trace), then
\* set_boxed_logger(Box::new(MultiLogger::new(..))).unwrap()
TestInit ==
    \E L \in ListsOf(TestVecLoggers, TestChildren) :
      LET levelled == set_max_level(Fresh, to_level_filter("Trace"))
          r == set_boxed_logger(levelled, [ptr |-> 1] @@ MultiLogger_new(Boxed(1, L)))
      IN  Start(r.facade, {"main"}, <<>>)

\* the test's body: a sequence of log macros on the test's one thread
TestNext ==
    \/ MTest("main", TestEmitLevels, Len(pc["main"].hist) < MaxEmits)
    \/ MCall("main")
    \/ CStep("main")

TestSpec == TestInit /\ [][TestNext]_vars

\* ---------------------------------------------------- concurrent emission
Threads == 1 .. NThreads

\* MultiLogger::init has returned before the emitting threads start
ConcInit == Installed(SeqChildren, Threads)

ConcNext ==
    \E t \in Threads :
       \/ MTest(t, SeqEmitLevels, NEmitted(Threads) < MaxSeqEmits)
       \/ MCall(t)
       \/ CStep(t)

ConcSpec == ConcInit /\ [][ConcNext]_vars

\* ================================================================ claims
\* the calls one pass over the children L makes, in construction order
ExpectedCalls(L, op) == [i \in 1 .. Len(L) |-> <<L[i].id, op>>]

IsPrefix(s, t) == Len(s) <= Len(t) /\ s = SubSeq(t, 1, Len(s))

\* the macros run so far, each named by its thread and its place in hist
Entries == UNION {{<<t, k>> : k \in 1 .. Len(pc[t].hist)} : t \in DOMAIN pc}

EntryAt(x) == pc[x[1]].hist[x[2]]

AllIdle == \A t \in DOMAIN pc : pc[t].at = "idle"

\* the children of the logger a query or a macro was handed by log::logger()
LoggersAt(ptr) == IF ptr = 0 THEN NopLogger.loggers ELSE LOGGER.loggers

\* the level of the macro that formatted message m
LevelOfMessage(m) == CHOOSE l \in Level : MessageOf(l) = m

\* the init calls begun so far: returned, or between their two statements
Begun ==
    {[ptr |-> installs[k].ptr, level |-> installs[k].level] : k \in 1 .. Len(installs)}
      \cup {[ptr |-> pc[t].boxed.ptr, level |-> pc[t].ilevel] :
              t \in {u \in DOMAIN pc : pc[u].at = "init"}}

\* the init call that ran log::set_max_level last
LastBegun == CHOOSE b \in Begun : \A c \in Begun : c.ptr <= b.ptr

\* C1: every record delivered to MultiLogger::log reaches each child exactly
\* once, in construction order, whether or not the child's enabled() admits it.
C1_LogCallsEveryChildInOrder ==
    /\ \A x \in Entries :
         LET e == EntryAt(x)
             all == ExpectedCalls(LOGGER.loggers, "log")
         IN  e.ptr # 0
               => /\ e.ptr = LOGGER.ptr
                  /\ IsPrefix(e.calls, all)
                  /\ e.status = "returned" => e.calls = all
                  /\ e.status = "running" => Len(e.calls) < Len(all)
    /\ \A i \in 1 .. Len(LOGGER.loggers) :
         nlog[LOGGER.loggers[i].id] = Cardinality({x \in Entries : Len(EntryAt(x).calls) >= i})

\* a delivered record that the second of two children would not have enabled
C1_Witness ==
    \E x \in Entries :
       /\ EntryAt(x).status = "returned"
       /\ Len(LOGGER.loggers) = 2
       /\ EntryAt(x).calls = <<(<<<<1, 1>>, "log">>), (<<<<1, 2>>, "log">>)>>
       /\ ~ChildEnabled(LOGGER.loggers[2], Metadata(Record(EntryAt(x).level)))
       /\ nlog[<<1, 2>>] >= 1

\* C2: MultiLogger::enabled(m) is true iff at least one child reports
\* enabled(m); false when all report false and when there are no children.
C2_EnabledIsAnyChild ==
    lastOp.kind = "enabled"
        => /\ lastOp.ptr \in {0, LOGGER.ptr}
           /\ lastOp.result = TRUE
                <=> \E i \in 1 .. Len(LoggersAt(lastOp.ptr)) :
                       LevelAsUsize(lastOp.level) <= LevelAsUsize(LoggersAt(lastOp.ptr)[i].level)

\* enabled is true although the first child reports false
C2_Witness ==
    /\ lastOp.kind = "enabled"
    /\ lastOp.result = TRUE
    /\ Len(LoggersAt(lastOp.ptr)) = 2
    /\ ~ChildEnabled(LoggersAt(lastOp.ptr)[1], Metadata(Record(lastOp.level)))

\* C3: of two init calls the one that registers first returns Ok and the other
\* Err, and the first one's MultiLogger stays registered: records reach only
\* its children, and every record tested after it is registered reaches them.
C3_FirstInstallWins ==
    /\ \A k \in 1 .. Len(installs) : installs[k].result = IF k = 1 THEN "Ok" ELSE "Err"
    /\ Len(installs) = 0 => state = "UNINITIALIZED"
    /\ Len(installs) >= 1 => (state = "INITIALIZED" /\ LOGGER.ptr = installs[1].ptr)
    /\ \A x \in Entries :
         LET e == EntryAt(x)
         IN  /\ e.ptr \in {0, LOGGER.ptr}
             /\ \A k \in 1 .. Len(e.calls) : e.calls[k][1][1] = LOGGER.ptr
             /\ (e.registered /\ e.status = "returned")
                  => (e.ptr = LOGGER.ptr /\ e.calls = ExpectedCalls(LOGGER.loggers, "log"))
    /\ \A id \in ChildIds : id[1] # logger.ptr => (nlog[id] = 0 /\ messages[id] = <<>>)

\* a record delivered to the first call's child after the second call's
\* set_max_level, the second call having failed
C3_Witness ==
    /\ Len(installs) = 2
    /\ installs[1].ptr = 1
    /\ installs[2].ptr = 2
    /\ installs[2].result = "Err"
    /\ installs[1].level # installs[2].level
    /\ \E x \in Entries :
          /\ EntryAt(x).registered
          /\ EntryAt(x).threshold = to_level_filter(installs[2].level)
          /\ EntryAt(x).status = "returned"
          /\ EntryAt(x).calls = <<(<<<<1, 1>>, "log">>)>>
    /\ messages[<<1, 1>>] # <<>>
    /\ nlog[<<2, 1>>] = 0

\* C4 as stated: once a logger is registered, no operation changes the
\* registered logger or the max level.
C4_Original ==
    [][state = "INITIALIZED"
         => (LOGGER' = LOGGER /\ state' = state /\ max_level' = max_level)]_vars

\* C4 as amended: the registered logger is written once, by the first init to
\* register, and never afterwards; the max level is written by every init call
\* as it begins, also by one that then fails, and by no other step.
C4_Amended ==
    [][LET entering == {t \in DOMAIN pc : pc[t].at # "init" /\ pc'[t].at = "init"}
       IN  /\ state = "INITIALIZED" => (LOGGER' = LOGGER /\ state' = state)
           /\ (LOGGER' # LOGGER \/ state' # state)
                => (Len(installs) = 0 /\ Len(installs') = 1)
           /\ \A t \in entering : max_level' = to_level_filter(pc'[t].ilevel)
           /\ entering = {} => max_level' = max_level]_vars

\* a second init call, not yet at its registration, has changed the max level
\* and the logger is the first call's
C4_Witness ==
    /\ Len(installs) = 1
    /\ installs[1].result = "Ok"
    /\ LOGGER.ptr = installs[1].ptr
    /\ \E t \in DOMAIN pc :
          /\ pc[t].at = "init"
          /\ pc[t].ilevel # installs[1].level
          /\ max_level = to_level_filter(pc[t].ilevel)

\* C5: after a successful init(children, level), no other init call made, the
\* max level is level's filter: a less severe record is suppressed and reaches
\* no child, any other record is delivered to every child.
C5_InstallLevelFilters ==
    (Len(installs) = 1 /\ NInitCalls = 1)
        => /\ installs[1].result = "Ok"
           /\ max_level = to_level_filter(installs[1].level)
           /\ \A x \in Entries :
                LET e == EntryAt(x)
                IN  e.registered
                      => IF LevelAsUsize(e.level) <= LevelAsUsize(installs[1].level)
                         THEN /\ e.status # "suppressed"
                              /\ e.status = "returned"
                                   => /\ e.ptr = LOGGER.ptr
                                      /\ e.calls = ExpectedCalls(LOGGER.loggers, "log")
                         ELSE /\ e.status = "suppressed"
                              /\ e.calls = <<>>
           /\ \A i \in 1 .. Len(LOGGER.loggers) :
                LET c == LOGGER.loggers[i]
                IN  \A j \in 1 .. Len(messages[c.id]) :
                       LET l == LevelOfMessage(messages[c.id][j])
                       IN  /\ LevelAsUsize(l) <= LevelAsUsize(installs[1].level)
                           /\ LevelAsUsize(l) <= LevelAsUsize(c.level)

\* one child at info, init at warn, info! then warn!: the buffer is ["warn"]
C5_Witness ==
    /\ installs = <<[ptr |-> 1, level |-> "Warn", result |-> "Ok"]>>
    /\ NInitCalls = 1
    /\ Len(LOGGER.loggers) = 1
    /\ LOGGER.loggers[1].level = "Info"
    /\ \E t \in DOMAIN pc :
          /\ pc[t].at = "idle"
          /\ Len(pc[t].hist) = 2
          /\ pc[t].hist[1].level = "Info"
          /\ pc[t].hist[1].registered
          /\ pc[t].hist[1].status = "suppressed"
          /\ pc[t].hist[2].level = "Warn"
          /\ pc[t].hist[2].status = "returned"
    /\ messages[<<1, 1>>] = <<"warn">>

\* C6: with the max level at trace, after a sequence of macros on one thread
\* each VecLogger's buffer is the subsequence of the emitted messages whose
\* level passes its own threshold, in emission order.
C6_BufferIsOwnSubsequence ==
    LET hist == pc["main"].hist
    IN  (\A k \in 1 .. Len(hist) : hist[k].threshold = "Trace")
          => \A i \in 1 .. Len(LOGGER.loggers) :
               LET c == LOGGER.loggers[i]
                   sel == SelectSeq(hist,
                            LAMBDA e : /\ pc["main"].at = "idle" \/ Len(e.calls) >= i
                                       /\ LevelAsUsize(e.level) <= LevelAsUsize(c.level))
               IN  messages[c.id] = [k \in 1 .. Len(sel) |-> MessageOf(sel[k].level)]

\* the test: children at debug, info, error; debug!, info!, warn!, error!
C6_Witness ==
    /\ max_level = "Trace"
    /\ pc["main"].at = "idle"
    /\ [i \in 1 .. Len(LOGGER.loggers) |-> LOGGER.loggers[i].level] = <<"Debug", "Info", "Error">>
    /\ [k \in 1 .. Len(pc["main"].hist) |-> pc["main"].hist[k].level]
         = <<"Debug", "Info", "Warn", "Error">>
    /\ messages[<<1, 1>>] = <<"debug", "info", "warn", "error">>
    /\ messages[<<1, 2>>] = <<"info", "warn", "error">>
    /\ messages[<<1, 3>>] = <<"error">>

\* C7: under any interleaving of emitting threads every admitted record reaches
\* every child exactly once, and each call visits the children in order.
C7_ConcurrentNoLossNoDuplication ==
    LET admitted == {x \in Entries : EntryAt(x).status # "suppressed"}
    IN  /\ \A i \in 1 .. Len(LOGGER.loggers) :
             LET c == LOGGER.loggers[i]
             IN  /\ nlog[c.id] <= nemit
                 /\ AllIdle
                      => /\ nlog[c.id] = Cardinality(admitted)
                         /\ Len(messages[c.id])
                              = Cardinality({x \in admitted :
                                               LevelAsUsize(EntryAt(x).level)
                                                 <= LevelAsUsize(c.level)})
        /\ AllIdle => nemit = Cardinality(admitted)
        /\ \A t \in DOMAIN pc :
             pc[t].at = "logging"
               => pc[t].hist[Len(pc[t].hist)].calls
                    = [k \in 1 .. pc[t].pos - 1 |-> <<LOGGER.loggers[k].id, "log">>]

\* two threads, warn! and info!, their child calls interleaved: both children
\* hold both records, in different orders
C7_Witness ==
    /\ AllIdle
    /\ nemit = 2
    /\ \A t \in DOMAIN pc : Len(pc[t].hist) <= 1
    /\ Len(LOGGER.loggers) = 2
    /\ nlog[<<1, 1>>] = 2
    /\ nlog[<<1, 2>>] = 2
    /\ messages[<<1, 1>>] = <<"warn", "info">>
    /\ messages[<<1, 2>>] = <<"info", "warn">>

\* C8: one flush() flushes each child exactly once, in construction order, and
\* makes no enabled or log call; with no children it does nothing.
C8_FlushCallsEveryChildInOrder ==
    /\ lastOp.kind = "flush"
         => /\ lastOp.ptr \in {0, LOGGER.ptr}
            /\ lastOp.calls = ExpectedCalls(LoggersAt(lastOp.ptr), "flush")
    /\ \A id \in ChildIds : nlog[id] = 0 /\ messages[id] = <<>>

\* a flush of two children
C8_Witness ==
    /\ lastOp.kind = "flush"
    /\ lastOp.ptr = 1
    /\ lastOp.calls = <<(<<<<1, 1>>, "flush">>), (<<<<1, 2>>, "flush">>)>>

\* C9: if the child at position i panics in log(r), the children before i have
\* received r once, no child after i is called, and the panic reaches the caller.
C9_PanicStopsTheLoop ==
    /\ \A x \in Entries :
         LET e == EntryAt(x)
             L == LOGGER.loggers
             P == {i \in 1 .. Len(L) : ChildPanics(L[i], Record(e.level))}
         IN  e.ptr # 0
               => IF P = {}
                  THEN /\ e.status # "panic"
                       /\ e.status = "returned" => e.calls = ExpectedCalls(L, "log")
                  ELSE LET i == CHOOSE p \in P : \A q \in P : p <= q
                       IN  /\ e.status \in {"running", "panic"}
                           /\ IsPrefix(e.calls, [k \in 1 .. i |-> <<L[k].id, "log">>])
                           /\ e.status = "panic" <=> Len(e.calls) = i
                           /\ e.status = "panic"
                                => (pc[x[1]].at = "panicked" /\ x[2] = Len(pc[x[1]].hist))
    /\ \A t \in DOMAIN pc :
         pc[t].at = "panicked" => pc[t].hist[Len(pc[t].hist)].status = "panic"

\* the first of two children panicked: the second was never called
C9_Witness ==
    /\ Len(LOGGER.loggers) = 2
    /\ nlog[<<1, 1>>] = 1
    /\ nlog[<<1, 2>>] = 0
    /\ \E t \in DOMAIN pc :
          /\ pc[t].at = "panicked"
          /\ pc[t].hist[Len(pc[t].hist)].status = "panic"
          /\ pc[t].hist[Len(pc[t].hist)].calls = <<(<<<<1, 1>>, "log">>)>>

\* C10: init sets the max level before it registers and does not restore it:
\* the max level is the filter of the init call that began last, also when that
\* call fails, which changes the records admitted to the first MultiLogger.
C10_FailedInstallKeepsItsLevel ==
    /\ NInitCalls >= 1 => max_level = to_level_filter(LastBegun.level)
    /\ \A x \in Entries :
         EntryAt(x).status = "suppressed"
           <=> LevelAsUsize(EntryAt(x).level) > LevelFilterAsUsize(EntryAt(x).threshold)

\* info! is delivered after the first init (at trace) and suppressed after the
\* failed second init (at warn)
C10_Witness ==
    /\ installs = <<[ptr |-> 1, level |-> "Trace", result |-> "Ok"],
                    [ptr |-> 2, level |-> "Warn", result |-> "Err"]>>
    /\ max_level = "Warn"
    /\ LOGGER.ptr = 1
    /\ \E x, y \in Entries :
          /\ EntryAt(x).level = "Info"
          /\ EntryAt(x).threshold = "Trace"
          /\ EntryAt(x).status = "returned"
          /\ EntryAt(x).ptr = 1
          /\ EntryAt(y).level = "Info"
          /\ EntryAt(y).registered
          /\ EntryAt(y).threshold = "Warn"
          /\ EntryAt(y).status = "suppressed"

====
